---- MODULE Spec2Model ----
(***************************************************************************)
(* Host-time bridge of the simulator (arch/sim/src/sim/posix/sim_hosttime.c)*)
(*                                                                         *)
(* The module models the two build strategies of the file (NUTTX_DARWIN:   *)
(* setitimer; otherwise: timer_create/timer_settime), its two statics      *)
(* g_start and g_timer, the six public functions, and the host objects     *)
(* they act on: the monotonic clock and the interval timers.               *)
(*                                                                         *)
(* uint64_t arithmetic is kept modular.  TLC's integers are 32 bits wide,  *)
(* so the 64-bit word of the C code is modelled by a 30-bit word (Word):   *)
(* every sum, difference and comparison is computed exactly as in the C    *)
(* code, modulo Word instead of modulo 2^64.  The literals of the code     *)
(* (1000, 999, 1000000, 1000000000) keep their values.                     *)
(***************************************************************************)
EXTENDS Integers, FiniteSets, Sequences, TLC

\* ------------------------------------------------------------------ bounds

\* The host clock is followed for this many nanoseconds after the model starts.
MaxAdvance == 1500

\* timer_create succeeds at most this many times (host resource limit).
MaxTimers == 2

\* ------------------------------------------------------- program constants

\* Modulus of uint64_t arithmetic (see the header comment).
Word == 2^30

\* 1000000000ull: nanoseconds per second.
NsPerSec == 1000000000

\* / 1000: nanoseconds per microsecond.
NsPerUsec == 1000

\* 1000000: microseconds per second.
UsecPerSec == 1000000

\* The rounding term of host_sleep.
RoundUp == 999

\* The guard of host_sleepuntil.
SleepGuard == 1000

\* The signal number behind host_timerirq.
SIGALRM == 14

\* --------------------------------------------------------- input domains

\* Host monotonic clock values at which a run of the model starts.
BootTimes == {1000000700}

\* Arguments of host_sleep (durations, ns).
Durations == {0, 1, Word - 1}

\* Arguments of host_sleepuntil and host_settimer (virtual deadlines, ns).
Deadlines == {0, 999, 1500, Word - 1}

\* Amounts by which the host clock advances between two calls.
TickSteps == {500}

\* What a timespec left unwritten by a failed clock_gettime can hold.
StaleTimespecs == {[tv_sec |-> 0, tv_nsec |-> 0], [tv_sec |-> 0, tv_nsec |-> 1234567]}

VARIABLES
  strategy,      \* "darwin" (NUTTX_DARWIN defined) or "posix": fixed by the build
  callOrder,     \* "contract": host_inittimer is called once, first; "any": no order
  clockFaulty,   \* whether clock_gettime can fail on this host
  boot,          \* host monotonic clock when the run started
  hostMono,      \* host CLOCK_MONOTONIC, ns
  hostRealOff,   \* CLOCK_REALTIME minus CLOCK_MONOTONIC
  g_start,       \* static uint64_t g_start
  g_timer,       \* static timer_t g_timer (0: the zero-initialised static)
  timers,        \* the host's timers: 0 is ITIMER_REAL, 1.. come from timer_create
  nInit,         \* calls of host_inittimer so far (2 stands for two or more)
  asked,         \* the last successful host_settimer, until its timer expires:
                 \* its deadline, and whether it replaced a deadline not yet reached
  firedSinceArm, \* expiries since the last successful host_settimer (capped)
  last           \* the step just taken: its operation, arguments and results

vars == <<strategy, callOrder, clockFaulty, boot, hostMono, hostRealOff, g_start,
          g_timer, timers, nInit, asked, firedSinceArm, last>>

TimerIds == 0 .. MaxTimers

Min(a, b) == IF a <= b THEN a ELSE b

\* ------------------------------------------------------ pure computations

\* 1000000000ull * tp.tv_sec + tp.tv_nsec
ToNs(tp) == (NsPerSec * tp.tv_sec + tp.tv_nsec) % Word

\* What clock_gettime stores for a clock that reads ns.
TimespecOf(ns) == [tv_sec |-> ns \div NsPerSec, tv_nsec |-> ns % NsPerSec]

\* The outcomes of clock_gettime(clk, &tp): on failure tp keeps what it held.
ClockGettime(ns) ==
  {[ok |-> TRUE, tp |-> TimespecOf(ns)]}
    \cup (IF clockFaulty THEN {[ok |-> FALSE, tp |-> s] : s \in StaleTimespecs} ELSE {})

\* (Elapsed with its operands exchanged.)
ElapsedSwapped(current, start) == (start - current) % Word

\* current - g_start
Elapsed(current, start) == (current - start) % Word

\* (nsec + 999) / 1000
SleepUsec(nsec) == ((nsec + RoundUp) % Word) \div NsPerUsec

\* (SleepUntilBlocks without the guard.)
SleepUntilBlocksNoGuard(nsec, now) == nsec > now

\* nsec > now + 1000
SleepUntilBlocks(nsec, now) == nsec > (now + SleepGuard) % Word

\* (nsec - now) / 1000
SleepUntilUsec(nsec, now) == ((nsec - now) % Word) \div NsPerUsec

\* (DarwinItimerval with it_interval set like it_value.)
DarwinItimervalPeriodic(nsec) ==
  LET usec == nsec \div NsPerUsec
      v    == [tv_sec |-> usec \div UsecPerSec, tv_usec |-> usec % UsecPerSec]
  IN  [it_value |-> v, it_interval |-> v]

\* The struct itimerval host_settimer builds under NUTTX_DARWIN.
DarwinItimerval(nsec) ==
  LET usec == nsec \div NsPerUsec
  IN  [it_value    |-> [tv_sec |-> usec \div UsecPerSec, tv_usec |-> usec % UsecPerSec],
       it_interval |-> [tv_sec |-> 0, tv_usec |-> 0]]

\* The struct itimerspec host_settimer builds otherwise.
PosixItimerspec(nsec, start) ==
  LET abs == (nsec + start) % Word
  IN  [it_value    |-> [tv_sec |-> abs \div NsPerSec, tv_nsec |-> abs % NsPerSec],
       it_interval |-> [tv_sec |-> 0, tv_nsec |-> 0]]

\* ------------------------------------------------------------ host timers

TimevalNs(tv) == (tv.tv_sec * UsecPerSec + tv.tv_usec) * NsPerUsec

TimespecNs(ts) == ts.tv_sec * NsPerSec + ts.tv_nsec

\* A host timer: whether it exists, is armed, when it expires, its reload value.
NoTimer == [created |-> FALSE, armed |-> FALSE, expiry |-> 0, interval |-> 0]

\* No host_settimer call is outstanding.
NotAsked == [valid |-> FALSE, deadline |-> 0, early |-> FALSE]

\* setitimer(ITIMER_REAL, &it, NULL): a relative one; a zero it_value disarms.
Setitimer(tmr, it, nowHost) ==
  [tmr EXCEPT !.armed    = TimevalNs(it.it_value) # 0,
              !.expiry   = IF TimevalNs(it.it_value) # 0
                             THEN nowHost + TimevalNs(it.it_value) ELSE 0,
              !.interval = TimevalNs(it.it_interval)]

\* timer_settime(t, TIMER_ABSTIME, &tspec, NULL): a zero it_value disarms.
TimerSettime(tmr, tspec) ==
  [tmr EXCEPT !.armed    = TimespecNs(tspec.it_value) # 0,
              !.expiry   = TimespecNs(tspec.it_value),
              !.interval = TimespecNs(tspec.it_interval)]

Armed == {id \in TimerIds : timers[id].armed}

\* Armed timers whose expiry time the clock has reached: their signal is due.
Due == {id \in Armed : timers[id].expiry <= hostMono}

\* The clock value a blocking or idle period ending at `target` really ends
\* at: expiry of an armed timer raises SIGALRM, which cuts the period short.
StopAt(target) ==
  LET ahead == {timers[id].expiry : id \in {i \in Armed : timers[i].expiry < target}}
  IN  IF ahead = {} THEN target
      ELSE CHOOSE e \in ahead : \A f \in ahead : e <= f

\* ------------------------------------------------------------------- steps

Step(op) ==
  [op |-> op, nsec |-> 0, rtc |-> FALSE, ret |-> 0, now |-> 0, current |-> 0,
   clockOk |-> TRUE, hostOk |-> TRUE, hostCalls |-> 0,
   slept |-> FALSE, usleep |-> 0, interrupted |-> FALSE,
   valueZero |-> FALSE, expiry |-> 0, mine |-> FALSE, deadline |-> 0,
   early |-> FALSE]

\* Whether the caller may make a call now, under the order it follows.
MayInit == callOrder = "any" \/ nInit = 0
MayCall == callOrder = "any" \/ nInit >= 1

\* CLOCK_REALTIME minus CLOCK_MONOTONIC on the modelled hosts.
RealOffsets == {777}

\* The state after program start: statics are zero, ITIMER_REAL exists and is
\* disarmed, no timer_create timer exists.
InitWith(order, faulty) ==
  /\ strategy \in {"darwin", "posix"}
  /\ callOrder = order
  /\ clockFaulty = faulty
  /\ boot \in BootTimes
  /\ hostMono = boot
  /\ hostRealOff \in RealOffsets
  /\ g_start = 0
  /\ g_timer = 0
  /\ timers = [id \in TimerIds |-> IF id = 0 THEN [NoTimer EXCEPT !.created = TRUE]
                                             ELSE NoTimer]
  /\ nInit = 0
  /\ asked = NotAsked
  /\ firedSinceArm = 0
  /\ last = Step("none")

\* The caller keeps the order of calls the interface asks for; the host conforms.
Init == InitWith("contract", FALSE)

\* The caller makes the public calls in any order, any number of times.
InitAnySeq == InitWith("any", FALSE)

\* The caller keeps the order, but clock_gettime can fail.
InitFaultyClock == InitWith("contract", TRUE)

\* int host_inittimer(void)
host_inittimer ==
  /\ MayInit
  /\ \E c \in ClockGettime(hostMono), created \in BOOLEAN :
       LET free == {id \in 1 .. MaxTimers : ~timers[id].created}
           ok   == strategy = "posix" /\ created /\ free # {}
           id   == IF ok THEN CHOOSE i \in free : \A j \in free : i <= j ELSE 0
       IN  /\ strategy = "darwin" => created
           /\ g_start' = ToNs(c.tp)
           /\ g_timer' = IF ok THEN id ELSE g_timer
           /\ timers' = IF ok THEN [timers EXCEPT ![id] = [NoTimer EXCEPT !.created = TRUE]]
                              ELSE timers
           /\ last' = [Step("inittimer") EXCEPT
                         !.ret = IF strategy = "darwin" \/ ok THEN 0 ELSE -1,
                         !.clockOk = c.ok,
                         !.hostOk = (strategy = "darwin" \/ ok),
                         !.hostCalls = IF strategy = "darwin" THEN 0 ELSE 1,
                         !.current = ToNs(c.tp)]
  /\ nInit' = Min(nInit + 1, 2)
  /\ asked' = IF g_timer' # g_timer THEN NotAsked ELSE asked
  /\ UNCHANGED <<strategy, callOrder, clockFaulty, boot, hostMono, hostRealOff,
                 firedSinceArm>>

\* What host_gettime(false) returns when it is called in the current state of
\* a host whose clock_gettime succeeds.
MonoRead == Elapsed(ToNs(TimespecOf(hostMono)), g_start)

\* (host_gettime keeping the sample of a monotonic read as the new g_start.)
host_gettime_rebasing ==
  /\ MayCall
  /\ \E rtc \in BOOLEAN :
       \E c \in ClockGettime(IF rtc THEN hostMono + hostRealOff ELSE hostMono) :
         LET current == ToNs(c.tp)
             ret     == IF rtc THEN current ELSE Elapsed(current, g_start)
         IN  /\ last' = [Step("gettime") EXCEPT
                           !.rtc = rtc, !.ret = ret, !.current = current,
                           !.clockOk = c.ok]
             /\ g_start' = IF rtc THEN g_start ELSE current
  /\ UNCHANGED <<strategy, callOrder, clockFaulty, boot, hostMono, hostRealOff,
                 g_timer, timers, nInit, asked, firedSinceArm>>

\* uint64_t host_gettime(bool rtc)
host_gettime ==
  /\ MayCall
  /\ \E rtc \in BOOLEAN :
       \E c \in ClockGettime(IF rtc THEN hostMono + hostRealOff ELSE hostMono) :
         LET current == ToNs(c.tp)
             ret     == IF rtc THEN current ELSE Elapsed(current, g_start)
         IN  /\ last' = [Step("gettime") EXCEPT
                           !.rtc = rtc, !.ret = ret, !.current = current,
                           !.clockOk = c.ok]
  /\ UNCHANGED <<strategy, callOrder, clockFaulty, boot, hostMono, hostRealOff,
                 g_start, g_timer, timers, nInit, asked, firedSinceArm>>

\* usleep(usec) as the caller sees it: the clock has moved on by usec
\* microseconds when it returns, or to the expiry of an armed timer if that
\* comes first (SIGALRM interrupts the sleep).
Usleep(usec, step) ==
  LET target == hostMono + usec * NsPerUsec
      wake   == StopAt(target)
  IN  /\ Due = {}
      /\ wake <= boot + MaxAdvance
      /\ hostMono' = wake
      /\ last' = [step EXCEPT !.slept = TRUE, !.usleep = usec,
                              !.interrupted = (wake < target)]

\* void host_sleep(uint64_t nsec)
host_sleep ==
  /\ MayCall
  /\ \E nsec \in Durations :
       Usleep(SleepUsec(nsec), [Step("sleep") EXCEPT !.nsec = nsec, !.hostCalls = 1])
  /\ UNCHANGED <<strategy, callOrder, clockFaulty, boot, hostRealOff, g_start,
                 g_timer, timers, nInit, asked, firedSinceArm>>

\* void host_sleepuntil(uint64_t nsec)
host_sleepuntil ==
  /\ MayCall
  /\ \E nsec \in Deadlines, c \in ClockGettime(hostMono) :
       LET now  == Elapsed(ToNs(c.tp), g_start)
           step == [Step("sleepuntil") EXCEPT !.nsec = nsec, !.now = now,
                                             !.current = ToNs(c.tp), !.clockOk = c.ok]
       IN  IF SleepUntilBlocks(nsec, now)
             THEN Usleep(SleepUntilUsec(nsec, now), [step EXCEPT !.hostCalls = 1])
             ELSE /\ last' = step
                  /\ hostMono' = hostMono
  /\ UNCHANGED <<strategy, callOrder, clockFaulty, boot, hostRealOff, g_start,
                 g_timer, timers, nInit, asked, firedSinceArm>>

\* int host_settimer(uint64_t nsec)
host_settimer ==
  /\ MayCall
  /\ \E nsec \in Deadlines \cup {(Word - g_start) % Word}, hostOk \in BOOLEAN :
       LET id    == IF strategy = "darwin" THEN 0 ELSE g_timer
           valid == strategy = "darwin" \/ (g_timer # 0 /\ timers[g_timer].created)
           ok    == hostOk /\ valid
           now   == Elapsed(hostMono, g_start)
           tmr   == IF strategy = "darwin"
                      THEN Setitimer(timers[id], DarwinItimerval(nsec), hostMono)
                      ELSE TimerSettime(timers[id], PosixItimerspec(nsec, g_start))
       IN  /\ valid \/ ~hostOk
           /\ timers' = IF ok THEN [timers EXCEPT ![id] = tmr] ELSE timers
           /\ asked' = IF ok
                         THEN [valid |-> TRUE, deadline |-> nsec,
                               early |-> asked.valid /\ nsec > asked.deadline
                                                     /\ now < asked.deadline]
                         ELSE asked
           /\ firedSinceArm' = IF ok THEN 0 ELSE firedSinceArm
           /\ last' = [Step("settimer") EXCEPT
                         !.nsec = nsec, !.now = now, !.ret = IF ok THEN 0 ELSE -1,
                         !.hostOk = ok, !.hostCalls = 1,
                         !.valueZero = ~tmr.armed, !.expiry = tmr.expiry]
  /\ UNCHANGED <<strategy, callOrder, clockFaulty, boot, hostMono, hostRealOff,
                 g_start, g_timer, nInit>>

\* int host_timerirq(void)
host_timerirq ==
  /\ MayCall
  /\ last' = [Step("timerirq") EXCEPT !.ret = SIGALRM]
  /\ UNCHANGED <<strategy, callOrder, clockFaulty, boot, hostMono, hostRealOff,
                 g_start, g_timer, timers, nInit, asked, firedSinceArm>>

\* ------------------------------------------------------------ environment

\* Time passes between two calls; it does not pass an expiry that is due.
\* (A run starts with the caller's first call: boot is the clock at that call.)
Tick ==
  /\ MayCall
  /\ Due = {}
  /\ \E d \in TickSteps :
       /\ hostMono + d <= boot + MaxAdvance
       /\ hostMono' = StopAt(hostMono + d)
  /\ last' = Step("tick")
  /\ UNCHANGED <<strategy, callOrder, clockFaulty, boot, hostRealOff, g_start,
                 g_timer, timers, nInit, asked, firedSinceArm>>

\* An armed timer reaches its expiry time: the host raises SIGALRM, and the
\* timer is disarmed, or reloaded from it_interval when that is not zero.
TimerExpire ==
  /\ \E id \in Due :
       timers' = [timers EXCEPT ![id] =
                    IF @.interval = 0
                      THEN [@ EXCEPT !.armed = FALSE, !.expiry = 0]
                      ELSE [@ EXCEPT !.expiry = @ + timers[id].interval]]
       /\ LET mine == id = (IF strategy = "darwin" THEN 0 ELSE g_timer)
          IN  /\ asked' = IF mine THEN NotAsked ELSE asked
              /\ last' = [Step("expire") EXCEPT
                            !.now = Elapsed(hostMono, g_start), !.current = hostMono,
                            !.mine = mine,
                            !.deadline = IF mine THEN asked.deadline ELSE 0,
                            !.early = mine /\ asked.early]
  /\ firedSinceArm' = Min(firedSinceArm + 1, 2)
  /\ UNCHANGED <<strategy, callOrder, clockFaulty, boot, hostMono, hostRealOff,
                 g_start, g_timer, nInit>>

Next ==
  \/ host_inittimer
  \/ host_gettime
  \/ host_sleep
  \/ host_sleepuntil
  \/ host_settimer
  \/ host_timerirq
  \/ Tick
  \/ TimerExpire

Spec == Init /\ [][Next]_vars

SpecAnySeq == InitAnySeq /\ [][Next]_vars

SpecFaultyClock == InitFaultyClock /\ [][Next]_vars

\* ------------------------------------------------------------------ claims

\* The timer host_settimer programs: ITIMER_REAL, or the one g_timer names.
MyTimer == IF strategy = "darwin" THEN 0 ELSE g_timer

\* A host_settimer call has just returned success.
SettimerSucceeded == last.op = "settimer" /\ last.ret = 0

\* C1: the expiry a successful host_settimer(T) programs is at host monotonic
\* time g_start + T, under either strategy.  (The calls that program no
\* expiry at all are the matter of C10.)
ArmProgramsEpochPlusDeadline ==
  (SettimerSucceeded /\ ~last.valueZero) => last.expiry = g_start + last.nsec

\* C2: at most one expiry is pending at any time, and when a deadline T was
\* replaced by a later deadline T' before T was reached, the expiry that
\* follows is the only one and comes at virtual time T'.
LastArmWins ==
  /\ Cardinality(Armed) <= 1
  /\ (last.op = "expire" /\ last.early) =>
       (last.now = last.deadline /\ firedSinceArm = 1)

MonotonicReadsNeverDecrease == [][nInit >= 1 => MonoRead' >= MonoRead]_vars

\* C4 (amended): every monotonic read returns the sampled host time minus
\* g_start, without underflow, and its value never decreases over a step that
\* is not a call of host_inittimer.
MonotonicBetweenInits ==
  /\ []((last.op = "gettime" /\ ~last.rtc) =>
          (last.ret = last.current - g_start /\ last.ret >= 0 /\ last.ret = MonoRead))
  /\ [][last'.op # "inittimer" => MonoRead' >= MonoRead]_vars

\* A monotonic read made at a later time than host_inittimer.
MonotonicWitness == last.op = "gettime" /\ ~last.rtc /\ nInit >= 1 /\ last.ret > 0

\* C5: host_sleep(d) asks the host for at least d nanoseconds.
SleepRoundsUp == last.op = "sleep" => last.usleep * NsPerUsec >= last.nsec

\* C6: host_sleepuntil asks for no sleep when the deadline is not more than
\* the guard ahead of now, and never asks for a sleep of zero length.
SleepUntilGuarded ==
  last.op = "sleepuntil" =>
    /\ (last.nsec <= last.now + SleepGuard => ~last.slept)
    /\ (last.slept => last.usleep > 0)

\* host_sleepuntil returned at once for a deadline still ahead, within the guard.
SleepUntilGuardedWitness ==
  last.op = "sleepuntil" /\ ~last.slept /\ last.nsec > last.now

\* C7: when host_sleepuntil blocks and no signal interrupts it, it asks for
\* at least deadline - now, and a monotonic read after it is not below the
\* deadline.
SleepUntilReachesDeadline ==
  (last.op = "sleepuntil" /\ last.slept /\ ~last.interrupted) =>
    /\ last.usleep * NsPerUsec >= last.nsec - last.now
    /\ MonoRead >= last.nsec

\* C8 (as stated): once host_inittimer has been called, g_start and g_timer
\* never change again, whatever is called.
InitTakesEffectOnce ==
  [][nInit >= 1 => (g_start' = g_start /\ g_timer' = g_timer)]_vars

\* C8 (amended): g_start and g_timer are written by host_inittimer only;
\* every other operation leaves them unchanged.
OnlyInitWritesStatics ==
  [][(g_start' # g_start \/ g_timer' # g_timer) => last'.op = "inittimer"]_vars

\* A second host_inittimer has replaced the epoch of the first.
OnlyInitWritesStaticsWitness ==
  last.op = "inittimer" /\ nInit = 2 /\ g_start > boot

\* C9: host_inittimer returns success only if its clock read and its timer
\* creation succeeded, and host_settimer returns the result of its one host
\* call.
HostFailuresReturned ==
  /\ (last.op = "inittimer" /\ last.ret = 0) => (last.clockOk /\ last.hostOk)
  /\ last.op = "settimer" => (last.hostCalls = 1 /\ (last.ret = 0 <=> last.hostOk))

\* C10: a successful host_settimer leaves its timer armed: the expiry value
\* it hands to the host is not zero and is not wrapped.
ArmNeverDisarms ==
  SettimerSucceeded =>
    /\ ~last.valueZero
    /\ timers[MyTimer].armed
    /\ (strategy = "posix" => last.expiry = last.nsec + g_start)
====
